---- MODULE Spec2Model ----
(***************************************************************************)
(* Home SOC: the network monitor (src/src/network-monitor.js), the threat  *)
(* aggregator (src/src/threat-aggregator.js) and the dashboard server's    *)
(* read of the cache (src/server.js).                                      *)
(*                                                                         *)
(* Encoding of JavaScript values                                           *)
(*   - a string that the code splits on ':' is the tuple of its            *)
(*     ':'-separated segments: "10.0.0.9:4444" is <<"10.0.0.9", "4444">>,  *)
(*     "" is <<"">>; split(':') is the tuple, pop() its last element;      *)
(*   - undefined is the empty tuple (no split of a string is empty);       *)
(*   - a line of command output is the tuple of its whitespace-separated   *)
(*     fields, the empty line is <<>>;                                     *)
(*   - an object is a record; a property the object lacks reads undefined; *)
(*   - null, numbers and booleans read from JSON are records with a kind.  *)
(***************************************************************************)
EXTENDS Integers, Sequences, FiniteSets, TLC

\* ---------------------------------------------------------------- bounds
\* The largest number of alert POSTs awaiting their answer.
MaxInflight == 4
\* The largest number of connection lines a collection returns.
MaxConn == 53
\* The most entries a feed returns in one answer.
MaxUpstream == 11
\* the segments of a request URL
MaxSegments == 4

\* ------------------------------------------------------- program constants
\* connCount > 50 (network-monitor.js:138)
SpikeMin == 50
\* threshold = prevConnCount * 2 (network-monitor.js:136)
SpikeFactor == 2
\* const suspiciousPorts = [...] (network-monitor.js:152)
suspiciousPorts == {4444, 5555, 6666, 8888, 31337, 12345}
\* detectAnomalies has three rules, each pushing at most one anomaly
MaxAnomalies == 3
\* slice(0, 10) (threat-aggregator.js:117, 154, 192)
MaxItems == 10
\* i.confidence_level >= 75 (threat-aggregator.js:200)
HighConfidence == 75
\* parseInt of a text that does not start with a number
NaN == -1
\* connCount / 0 in the reported increase
Infinity == -2

\* ------------------------------------------------------------ JS helpers
Undefined == <<>>
EmptyString == <<"">>
Str(s) == <<s>>

\* JavaScript truthiness of a string-or-undefined value.
TruthyStr(v) == v # Undefined /\ v # EmptyString

\* line.split(/\s+/)[i], undefined past the end
Part(parts, i) == IF i + 1 <= Len(parts) THEN parts[i + 1] ELSE Undefined

\* addr.split(':').pop()
PopSegment(addr) == addr[Len(addr)]

\* parseInt over the port texts that occur in the model's command output
ParseInt(s) ==
    CASE s = "22" -> 22
      [] s = "80" -> 80
      [] s = "443" -> 443
      [] s = "4444" -> 4444
      [] s = "31337" -> 31337
      [] OTHER -> NaN

\* The result of a call that may throw.
Returned(v) == [threw |-> FALSE, value |-> v]
Threw(what) == [threw |-> TRUE, value |-> what]

\* --------------------------------------------------------- the collectors
\* What exec hands its callback: an error, or the command's stdout as lines.
ExecFailed == [error |-> TRUE, stdout |-> <<>>]
ExecOk(lines) == [error |-> FALSE, stdout |-> lines]

\* line.trim() is non-empty
NonBlank(line) == line # <<>>

\* The object getNetworkConnections builds from one line.
ConnectionOf(parts) ==
    [protocol |-> Part(parts, 0),
     state    |-> Part(parts, 1),
     recv_q   |-> Part(parts, 2),
     send_q   |-> Part(parts, 3),
     local    |-> Part(parts, 4),
     peer     |-> Part(parts, 5),
     process  |-> IF TruthyStr(Part(parts, 6)) THEN Part(parts, 6) ELSE Str("unknown")]

\* getNetworkConnections: rejects on an exec error, else resolves with one
\* connection per non-blank line after the header.
getNetworkConnections(res) ==
    IF res.error THEN Threw("exec")
    ELSE LET lines == IF res.stdout = <<>> THEN <<>> ELSE Tail(res.stdout)
             kept  == SelectSeq(lines, NonBlank)
         IN  Returned([i \in 1..Len(kept) |-> ConnectionOf(kept[i])])

\* The object getListeningPorts builds from one line.
ListeningPortOf(parts) ==
    LET localAddr == IF TruthyStr(Part(parts, 4)) THEN Part(parts, 4) ELSE EmptyString
    IN  [protocol |-> Part(parts, 0),
         port     |-> Str(PopSegment(localAddr)),
         address  |-> localAddr]

\* Mutant: an exec error is taken for an empty list of ports.
getListeningPortsDefaulting(res) ==
    IF res.error THEN Returned(<<>>)
    ELSE LET kept == SelectSeq(res.stdout, NonBlank)
         IN  Returned([i \in 1..Len(kept) |-> ListeningPortOf(kept[i])])

\* getListeningPorts: rejects on an exec error (grep exits 1 when no line
\* matches), else resolves with one port per non-blank line.
getListeningPorts(res) ==
    IF res.error THEN Threw("exec")
    ELSE LET kept == SelectSeq(res.stdout, NonBlank)
         IN  Returned([i \in 1..Len(kept) |-> ListeningPortOf(kept[i])])

\* connections.filter(c => c.state === 'ESTAB')
IsEstab(c) == c.state = Str("ESTAB")

\* currentState as monitor builds it (the timestamp is left out: no rule
\* reads it).
CurrentStateOf(connections, ports) ==
    [kind        |-> "object",
     connections |-> connections,
     ports       |-> ports,
     stats       |-> [totalConnections       |-> Len(connections),
                      establishedConnections |-> Len(SelectSeq(connections, IsEstab)),
                      listeningPorts         |-> Len(ports)]]

\* ------------------------------------------------------------ JSON values
\* What JSON.parse can return for the state file: a snapshot object, or one
\* of these.
JsonNull == [kind |-> "null"]
JsonFalse == [kind |-> "false"]
JsonOne == [kind |-> "number"]
JsonEmptyObject == [kind |-> "object"]
JsonPortsOnly == [kind |-> "object", ports |-> <<>>]

\* JavaScript truthiness of a parsed value (or of null for "no state").
Truthy(v) == v.kind \notin {"null", "false"}

\* v.name is an array (a snapshot's connections and ports are).
HasArray(v, name) == name \in DOMAIN v

\* JSON.stringify drops the properties whose value is undefined.
DropUndefined(obj) == [k \in {f \in DOMAIN obj : obj[f] # Undefined} |-> obj[k]]

\* The JSON value JSON.stringify writes for a snapshot.
JsonValueOf(state) ==
    [kind        |-> "object",
     connections |-> [i \in 1..Len(state.connections) |-> DropUndefined(state.connections[i])],
     ports       |-> [i \in 1..Len(state.ports) |-> DropUndefined(state.ports[i])],
     stats       |-> state.stats]

\* A text is a prefix of the serialization of a JSON value: all of it, none
\* of it (the empty text) or a proper part of it.
TextOf(v) == [len |-> "all", of |-> v]
EmptyText == [len |-> "none", of |-> JsonNull]
CutText(v) == [len |-> "part", of |-> v]
\* The text of one writer followed by what is left of a longer text of
\* another writer.
MixedText == [len |-> "mixed", of |-> JsonNull]

\* JSON.stringify(state, null, 2)
JsonStringify(state) == TextOf(JsonValueOf(state))

\* JSON.parse(text): only a whole serialization parses.
JsonParse(text) ==
    IF text.len = "all" THEN Returned(text.of) ELSE Threw("SyntaxError")

\* A file: absent, or present with a text.
NoFile == [exists |-> FALSE, text |-> EmptyText]
FileWith(text) == [exists |-> TRUE, text |-> text]

\* conn.peer, undefined when the object has no such property
PeerOf(conn) == IF "peer" \in DOMAIN conn THEN conn.peer ELSE Undefined

\* -------------------------------------------------------- detectAnomalies
\* new Set(previousState.ports.map(p => p.port))
PrevPorts(previousState) ==
    {previousState.ports[i].port : i \in 1..Len(previousState.ports)}

\* Mutant: novelty keyed on (protocol, port) instead of the port alone.
NewPortsByProtocol(currentState, previousState) ==
    LET prevKeys == {<<previousState.ports[i].protocol, previousState.ports[i].port>> :
                       i \in 1..Len(previousState.ports)}
        IsNew(p) == <<p.protocol, p.port>> \notin prevKeys
    IN  SelectSeq(currentState.ports, IsNew)

\* currentState.ports.filter(p => !prevPorts.has(p.port))
NewPorts(currentState, previousState) ==
    LET prevPorts == PrevPorts(previousState)
        IsNew(p) == p.port \notin prevPorts
    IN  SelectSeq(currentState.ports, IsNew)

\* Mutant: the comparison with the threshold is not strict.
IsSpikeNotStrict(connCount, prevConnCount) ==
    connCount >= prevConnCount * SpikeFactor /\ connCount > SpikeMin

\* connCount > threshold && connCount > 50
IsSpike(connCount, prevConnCount) ==
    connCount > prevConnCount * SpikeFactor /\ connCount > SpikeMin

\* Math.round((connCount / prevConnCount - 1) * 100), for connCount above
\* prevConnCount
Increase(connCount, prevConnCount) ==
    IF prevConnCount = 0 THEN Infinity
    ELSE ((200 * connCount + prevConnCount) \div (2 * prevConnCount)) - 100

\* Mutant: the port is taken from the second ':'-separated segment of the
\* peer address instead of the last one.
PeerPortSecondSegment(conn) ==
    IF TruthyStr(PeerOf(conn)) /\ Len(PeerOf(conn)) >= 2 THEN ParseInt(PeerOf(conn)[2]) ELSE 0

\* conn.peer ? parseInt(conn.peer.split(':').pop()) : 0
PeerPort(conn) ==
    IF TruthyStr(PeerOf(conn)) THEN ParseInt(PopSegment(PeerOf(conn))) ELSE 0

\* suspiciousPorts.includes(peerPort)
IsSuspicious(conn) == PeerPort(conn) \in suspiciousPorts

\* currentState.connections.filter(...)
SuspiciousConns(currentState) == SelectSeq(currentState.connections, IsSuspicious)

\* Mutant: the rules are chained, the first one that holds hides the others.
RulesFirstMatch(currentState, previousState) ==
    LET newPorts == NewPorts(currentState, previousState)
        connCount == Len(currentState.connections)
        prevConnCount == Len(previousState.connections)
        suspiciousConns == SuspiciousConns(currentState)
    IN  IF Len(newPorts) > 0
        THEN <<[type |-> "new_listening_port", severity |-> "medium",
                details |-> [ports |-> newPorts]]>>
        ELSE IF IsSpike(connCount, prevConnCount)
        THEN <<[type |-> "connection_spike", severity |-> "high",
                details |-> [previous |-> prevConnCount,
                             current  |-> connCount,
                             increase |-> Increase(connCount, prevConnCount)]]>>
        ELSE IF Len(suspiciousConns) > 0
        THEN <<[type |-> "suspicious_port", severity |-> "critical",
                details |-> [conns |-> suspiciousConns]]>>
        ELSE <<>>

\* The three rules of detectAnomalies on a previous snapshot: the anomalies
\* in the order they are pushed. The details of an anomaly are wrapped in a
\* record (ports, conns) so that all anomalies are values of one shape.
Rules(currentState, previousState) ==
    LET newPorts == NewPorts(currentState, previousState)
        connCount == Len(currentState.connections)
        prevConnCount == Len(previousState.connections)
        suspiciousConns == SuspiciousConns(currentState)
        a1 == IF Len(newPorts) > 0
              THEN <<[type |-> "new_listening_port", severity |-> "medium",
                      details |-> [ports |-> newPorts]]>>
              ELSE <<>>
        a2 == IF IsSpike(connCount, prevConnCount)
              THEN <<[type |-> "connection_spike", severity |-> "high",
                      details |-> [previous |-> prevConnCount,
                                   current  |-> connCount,
                                   increase |-> Increase(connCount, prevConnCount)]]>>
              ELSE <<>>
        a3 == IF Len(suspiciousConns) > 0
              THEN <<[type |-> "suspicious_port", severity |-> "critical",
                      details |-> [conns |-> suspiciousConns]]>>
              ELSE <<>>
    IN  a1 \o a2 \o a3

\* A snapshot with no connection and no port.
EmptySnapshot == CurrentStateOf(<<>>, <<>>)

\* Mutant: a missing previous state is replaced by an empty snapshot instead
\* of ending the call.
detectAnomaliesDefaulted(currentState, previousState) ==
    IF ~Truthy(previousState) THEN Returned(Rules(currentState, EmptySnapshot))
    ELSE IF ~HasArray(previousState, "ports") THEN Threw("TypeError")
    ELSE IF ~HasArray(previousState, "connections") THEN Threw("TypeError")
    ELSE Returned(Rules(currentState, previousState))

\* detectAnomalies(currentState, previousState): the anomalies, or the
\* TypeError of reading .map or .length of undefined.
detectAnomalies(currentState, previousState) ==
    IF ~Truthy(previousState) THEN Returned(<<>>)
    ELSE IF ~HasArray(previousState, "ports") THEN Threw("TypeError")
    ELSE IF ~HasArray(previousState, "connections") THEN Threw("TypeError")
    ELSE Returned(Rules(currentState, previousState))

\* ------------------------------------------------ command output (inputs)
\* The header line of `ss -tunapl`.
SsHeader == <<Str("Netid"), Str("State"), Str("Recv-Q"), Str("Send-Q"),
              Str("Local"), Str("Peer"), Str("Process")>>

\* An established connection to the peer address given.
ConnLine(peer) ==
    <<Str("tcp"), Str("ESTAB"), Str("0"), Str("0"), <<"192.168.1.5", "51000">>,
      peer, Str("users:node")>>

BenignLine == ConnLine(<<"10.0.0.7", "443">>)
\* A peer on a suspicious port, over IPv4 and over IPv6 ("[::1]:31337").
BackdoorLine == ConnLine(<<"10.0.0.9", "4444">>)
BackdoorLine6 == ConnLine(<<"[", "", "1]", "31337">>)
\* A listening socket: its peer is "0.0.0.0:*".
ListenLine == <<Str("tcp"), Str("LISTEN"), Str("0"), Str("128"),
                <<"0.0.0.0", "22">>, <<"0.0.0.0", "*">>>>
\* A line cut after its local address: it has no peer column.
ShortLine == <<Str("tcp"), Str("ESTAB"), Str("0"), Str("0"), <<"192.168.1.5", "51001">>>>

\* The leading lines of the outputs tried; the lines after them are benign.
Leads ==
    {<<>>, <<BackdoorLine>>, <<ShortLine>>, <<ListenLine, BackdoorLine6>>,
     <<BackdoorLine6, BackdoorLine>>, <<BenignLine, ShortLine, BackdoorLine>>}

\* The numbers of connection lines tried: around 0, around SpikeMin / 2 and
\* from SpikeMin up to MaxConn.
ConnCounts ==
    {0, 1, 3} \cup {SpikeMin \div SpikeFactor, SpikeMin \div SpikeFactor + 1}
              \cup (SpikeMin..MaxConn)

\* stdout of `ss -tunapl` with n connection lines: the leading ones are
\* lead, the rest are benign; the output ends with a newline.
SsOutput(n, lead) ==
    <<SsHeader>> \o [i \in 1..n |-> IF i <= Len(lead) THEN lead[i] ELSE BenignLine]
                 \o <<(<<>>)>>

\* Every stdout of `ss -tunapl` within the bounds.
SsOutputs ==
    {SsOutput(n, lead) : n \in ConnCounts, lead \in Leads}
\* A line of `ss -tuln | grep LISTEN` for the local address given.
PortLine(proto, addr) ==
    <<Str(proto), Str("LISTEN"), Str("0"), Str("128"), addr, <<"0.0.0.0", "*">>>>

Tcp22 == PortLine("tcp", <<"0.0.0.0", "22">>)
\* "[::]:22": the same port number on another address
Tcp22v6 == PortLine("tcp", <<"[", "", "]", "22">>)
\* The same port number under another protocol.
Udp22 == PortLine("udp", <<"0.0.0.0", "22">>)
Tcp80 == PortLine("tcp", <<"0.0.0.0", "80">>)
\* A line cut before its local address: its port is the empty string.
ShortPortLine == <<Str("tcp"), Str("LISTEN")>>

\* The listening-port line lists tried (each followed by the final newline).
PortLineLists ==
    {<<Tcp22>>, <<Udp22>>, <<Tcp22, Tcp80>>, <<Tcp22, Tcp22v6>>,
     <<Tcp80, Tcp22>>, <<Tcp80, ShortPortLine>>}

\* Every stdout of `ss -tuln | grep LISTEN` that exec hands over without an
\* error: grep matched at least one line.
PortOutputs == {lines \o <<(<<>>)>> : lines \in PortLineLists}

\* The snapshots whose connections come from the outputs in Conns and whose
\* ports come from the outputs in Ports.
SnapshotsOf(Conns, Ports) ==
    {CurrentStateOf(getNetworkConnections(ExecOk(c)).value,
                    getListeningPorts(ExecOk(p)).value) : c \in Conns, p \in Ports}

\* The snapshots given to detectAnomalies as currentState: any connections,
\* any ports, and no port at all.
CurrentSnapshots == SnapshotsOf(SsOutputs, PortOutputs \cup {<<>>})

\* The values given to detectAnomalies as previousState: no state, a
\* snapshot read back from the state file, or another JSON value.
PreviousValues ==
    {JsonNull, JsonFalse, JsonOne, JsonEmptyObject, JsonPortsOnly}
    \cup {JsonParse(JsonStringify(st)).value :
            st \in SnapshotsOf({SsOutput(n, <<ShortLine>>) : n \in ConnCounts},
                               PortOutputs \cup {<<>>})}

\* ---------------------------------------------- loadState, sendAlert
\* loadState(): the parsed state file, or null when the file is missing or
\* does not parse (the error is logged, not raised).
loadState(file) ==
    IF file.exists /\ ~JsonParse(file.text).threw
    THEN JsonParse(file.text).value
    ELSE JsonNull

\* CONFIG.alertWebhook: process.env.DISCORD_WEBHOOK_URL || null. The values
\* tried: unset, a webhook URL, and the placeholder of DEPLOY.md.
NoWebhook == "null"
WebhookUrl == "https://discord.com/api/webhooks/1/token"
WebhookPlaceholder == "your_webhook_url_here"
WebhookConfigs == {NoWebhook, WebhookUrl, WebhookPlaceholder}

\* new URL(s) throws a TypeError unless s is an absolute URL.
UrlParses(s) == s = WebhookUrl

\* sendAlert(alert) up to its return: the alert is logged when no webhook is
\* configured; else the URL is parsed (which may throw) and a POST is begun.
sendAlert(alert, alertWebhook) ==
    IF alertWebhook = NoWebhook THEN Returned([type |-> alert.type, via |-> "log"])
    ELSE IF ~UrlParses(alertWebhook) THEN Threw("TypeError")
    ELSE Returned([type |-> alert.type, via |-> "post"])

\* The exec outcomes a monitor cycle may meet: the full sets of outputs are
\* thinned to keep the cycles of the monitor within reach.
MonitorSsResults ==
    {ExecFailed}
    \cup {ExecOk(SsOutput(n, lead)) :
            n \in {0, 2, SpikeMin + 1},
            lead \in {<<>>, <<ShortLine>>, <<BackdoorLine>>, <<BackdoorLine6, BackdoorLine>>}}

\* grep LISTEN keeps a line that holds LISTEN: in the numeric output of ss
\* that is a line whose State column is LISTEN.
HoldsListen(line) == Part(line, 1) = Str("LISTEN")

\* exec('ss -tuln | grep LISTEN') on a host with the sockets given: ss
\* prints its header and one line per socket, and the shell ends with the
\* status of grep, 0 with the matching lines on stdout, or 1 when no line
\* matched, which exec hands its callback as an error.
ListenCommand(sockets) ==
    LET matched == SelectSeq(<<SsHeader>> \o sockets, HoldsListen)
    IN  IF matched = <<>> THEN ExecFailed ELSE ExecOk(matched \o <<(<<>>)>>)

\* The listening sockets a host may have when a monitor cycle asks for them.
MonitorSocketTables == {<<>>, <<Tcp22>>, <<Udp22>>, <<Tcp22, Tcp80>>}

\* What a query found: "failed" when its command could not be run, "empty"
\* when the host had no socket to report, else "some".
Found(ran, sockets) ==
    IF ~ran THEN "failed" ELSE IF sockets = <<>> THEN "empty" ELSE "some"

\* The same for an outcome of exec('ss -tunapl'), whose output shows the
\* sockets after the header.
SsFound(res) ==
    IF res.error THEN Found(FALSE, <<>>)
    ELSE Found(TRUE, SelectSeq(Tail(res.stdout), NonBlank))

\* The state file when the monitor starts: missing, cut short by an
\* interrupted write, or holding JSON that is no snapshot.
InitialStateFiles ==
    {NoFile,
     FileWith(CutText(JsonValueOf(EmptySnapshot))),
     FileWith(TextOf(JsonEmptyObject))}

\* --------------------------------------------------------- the aggregator
\* What a request of httpRequest ends in: an 'error' event of the request
\* (a network error or a timeout of the socket) with the error's message, or
\* a response with its status code and body.
ReqError(message) == [kind |-> "error", message |-> message]
Response(statusCode, body) == [kind |-> "response", statusCode |-> statusCode, body |-> body]

\* A response body: empty, text that is no JSON (an HTML error page), or the
\* serialization of a JSON value.
EmptyBody == [text |-> "empty"]
HtmlBody == [text |-> "html"]
JsonBody(v) == [text |-> "json", value |-> v]

\* JSON values of the feeds: arrays, and objects as records.
JArray(items) == [kind |-> "array", items |-> items]
JString == [kind |-> "string"]

\* httpRequest(url, options): resolves with {statusCode, body, json}, where
\* json is null for an empty body; rejects on a request error and on a body
\* that JSON.parse refuses. The status code is not looked at.
httpRequest(req) ==
    IF req.kind = "error" THEN Threw(req.message)
    ELSE IF req.body.text = "html" THEN Threw("Failed to parse JSON")
    ELSE Returned([statusCode |-> req.statusCode,
                   json |-> IF req.body.text = "empty" THEN JsonNull ELSE req.body.value])

\* Mutant: every entry is kept.
SliceAll(s) == s

\* slice(0, 10)
SliceTen(s) == SubSeq(s, 1, IF Len(s) < MaxItems THEN Len(s) ELSE MaxItems)

\* The catch block of a fetcher: it returns the failure as a SourceResult.
FetchFailed(source, message) ==
    Returned([source |-> source, error |-> message, items |-> <<>>])

\* An item of fetchRansomwareVictims (the fields copied as they are, group
\* apart, are left out).
VictimItem(v) ==
    [type     |-> "victim",
     name     |-> IF "post_title" \in DOMAIN v THEN v.post_title ELSE "Unknown",
     group    |-> v.group_name,
     severity |-> "high"]

\* The try block of fetchRansomwareVictims: victims.length of null and
\* victims.slice of an object that is no array throw a TypeError.
RansomwareTry(req) ==
    LET response == httpRequest(req)
    IN  IF response.threw THEN response
        ELSE LET victims == response.value.json
             IN  IF victims.kind = "null"
                 THEN Threw("Cannot read properties of null")
                 ELSE IF victims.kind # "array"
                 THEN Threw("victims.slice is not a function")
                 ELSE Returned([source |-> "Ransomware.live",
                                count  |-> Len(victims.items),
                                items  |-> [i \in 1..Len(SliceTen(victims.items)) |->
                                              VictimItem(victims.items[i])]])

\* fetchRansomwareVictims
fetchRansomwareVictims(req) ==
    LET r == RansomwareTry(req)
    IN  IF r.threw THEN FetchFailed("Ransomware.live", r.value) ELSE r

\* An item of fetchMaliciousURLs.
UrlItem(u) == [type |-> "url", url |-> u.url, threat |-> u.threat, severity |-> "medium"]

\* The try block of fetchMaliciousURLs: data.urls of null throws a
\* TypeError, and so does the map of urls that are no array.
UrlhausTry(req) ==
    LET response == httpRequest(req)
    IN  IF response.threw THEN response
        ELSE LET data == response.value.json
             IN  IF data.kind = "null"
                 THEN Threw("Cannot read properties of null")
                 ELSE LET urls == IF "urls" \in DOMAIN data THEN data.urls ELSE JArray(<<>>)
                      IN  IF urls.kind # "array"
                          THEN Threw("urls.slice(...).map is not a function")
                          ELSE Returned([source |-> "URLhaus",
                                         count  |-> Len(urls.items),
                                         items  |-> [i \in 1..Len(SliceTen(urls.items)) |->
                                                       UrlItem(urls.items[i])]])

\* fetchMaliciousURLs
fetchMaliciousURLs(req) ==
    LET r == UrlhausTry(req)
    IN  IF r.threw THEN FetchFailed("URLhaus", r.value) ELSE r

\* Mutant: the threshold of the confidence is exclusive.
IocSeverityAbove(i) ==
    IF "confidence_level" \in DOMAIN i /\ i.confidence_level > HighConfidence
    THEN "high" ELSE "medium"

\* i.confidence_level >= 75 ? 'high' : 'medium' (undefined >= 75 is false)
IocSeverity(i) ==
    IF "confidence_level" \in DOMAIN i /\ i.confidence_level >= HighConfidence
    THEN "high" ELSE "medium"

\* An item of fetchIOCs.
IocItem(i) ==
    IF "confidence_level" \in DOMAIN i
    THEN [type |-> "ioc", value |-> i.ioc, confidence |-> i.confidence_level,
          severity |-> IocSeverity(i)]
    ELSE [type |-> "ioc", value |-> i.ioc, severity |-> IocSeverity(i)]

\* The try block of fetchIOCs: data.data of null throws a TypeError, and so
\* does the map of a data that is no array.
ThreatfoxTry(req) ==
    LET response == httpRequest(req)
    IN  IF response.threw THEN response
        ELSE LET data == response.value.json
             IN  IF data.kind = "null"
                 THEN Threw("Cannot read properties of null")
                 ELSE LET iocs == IF "data" \in DOMAIN data THEN data.data ELSE JArray(<<>>)
                      IN  IF iocs.kind # "array"
                          THEN Threw("iocs.slice(...).map is not a function")
                          ELSE Returned([source |-> "ThreatFox",
                                         count  |-> Len(iocs.items),
                                         items  |-> [i \in 1..Len(SliceTen(iocs.items)) |->
                                                       IocItem(iocs.items[i])]])

\* fetchIOCs
fetchIOCs(req) ==
    LET r == ThreatfoxTry(req)
    IN  IF r.threw THEN FetchFailed("ThreatFox", r.value) ELSE r

\* t.error is truthy: the property is there and is not the empty string.
HasError(t) == "error" \in DOMAIN t /\ t.error # ""

\* An entry of summary.sources.
SourceEntry(t) ==
    [name   |-> t.source,
     status |-> IF HasError(t) THEN "error" ELSE "ok",
     count  |-> IF "count" \in DOMAIN t THEN t.count ELSE 0]

\* t.items?.length || 0
ItemCount(t) == IF "items" \in DOMAIN t THEN Len(t.items) ELSE 0

\* t.items?.filter(i => i.severity === 'high').length || 0
HighCount(t) ==
    IF "items" \in DOMAIN t
    THEN Cardinality({i \in 1..Len(t.items) : t.items[i].severity = "high"})
    ELSE 0

\* Mutant: the total adds up what each feed reported instead of the items kept.
RECURSIVE TotalThreatsByCount(_)
TotalThreatsByCount(threats) ==
    IF threats = <<>> THEN 0
    ELSE (IF "count" \in DOMAIN Head(threats) THEN Head(threats).count ELSE 0)
         + TotalThreatsByCount(Tail(threats))

\* threats.reduce((sum, t) => sum + (t.items?.length || 0), 0)
RECURSIVE TotalThreats(_)
TotalThreats(threats) ==
    IF threats = <<>> THEN 0
    ELSE ItemCount(Head(threats)) + TotalThreats(Tail(threats))

\* threats.reduce((sum, t) => sum + (high items of t), 0)
RECURSIVE HighSeverity(_)
HighSeverity(threats) ==
    IF threats = <<>> THEN 0
    ELSE HighCount(Head(threats)) + HighSeverity(Tail(threats))

\* const summary (the timestamp is left out)
SummaryOf(threats) ==
    [sources      |-> [i \in 1..Len(threats) |-> SourceEntry(threats[i])],
     totalThreats |-> TotalThreats(threats),
     highSeverity |-> HighSeverity(threats)]

\* const output
OutputOf(threats) == [summary |-> SummaryOf(threats), threats |-> threats]

\* The request of the dashboard server's handler for the cache file:
\* fs.readFile answers ENOENT with 404 and anything read with 200.
ServeFile(file) ==
    IF ~file.exists THEN [status |-> 404]
    ELSE [status |-> 200, content |-> file.text]

\* ---------------------------------------------- the dashboard server's paths
\* A path is the sequence of its segments, "/a/b" being <<a, b>>, and a
\* segment is a sequence of pieces of text: "public" is <<"public">> and
\* "public-old" is <<"public", "-old">>. The text of a path is the sequence
\* of its pieces, each segment after a "/".
EmptySegment == <<>>

RECURSIVE TextOfPath(_)
TextOfPath(segments) ==
    IF segments = <<>> THEN <<>>
    ELSE <<"/">> \o Head(segments) \o TextOfPath(Tail(segments))

\* text.startsWith(prefix)
StartsWith(text, prefix) ==
    Len(text) >= Len(prefix) /\ SubSeq(text, 1, Len(prefix)) = prefix

\* path.normalize of an absolute path, segment by segment: an empty segment
\* and "." are dropped, ".." drops the segment before it and stays at the
\* root.
RECURSIVE NormalizeOnto(_, _)
NormalizeOnto(done, segments) ==
    IF segments = <<>> THEN done
    ELSE LET s == Head(segments)
         IN  IF s = EmptySegment \/ s = Str(".")
             THEN NormalizeOnto(done, Tail(segments))
             ELSE IF s = Str("..")
             THEN NormalizeOnto(IF done = <<>> THEN done
                                ELSE SubSeq(done, 1, Len(done) - 1), Tail(segments))
             ELSE NormalizeOnto(Append(done, s), Tail(segments))

\* path.join(baseDir, filePath): the two are put together and normalized; a
\* slash at the end of filePath stays at the end of the result.
PathJoin(baseDir, filePath) ==
    LET segments == NormalizeOnto(<<>>, baseDir \o filePath)
    IN  [segments |-> segments,
         slash    |-> segments # <<>> /\ filePath[Len(filePath)] = EmptySegment]

\* The text of a joined path.
TextOfJoined(joined) ==
    TextOfPath(joined.segments) \o (IF joined.slash THEN <<"/">> ELSE <<>>)

\* __dirname, PUBLIC_DIR and DATA_DIR
Dirname == <<Str("opt"), Str("home-soc")>>
PUBLIC_DIR == Dirname \o <<Str("public")>>
DATA_DIR == Dirname \o <<Str("data")>>

\* The files of the host. Beside public and data the directory of the
\* server holds the server's source and two directories kept from an
\* earlier installation.
PublicOld == <<"public", "-old">>
DataOld == <<"data", "-old">>
IndexHtml == Str("index.html")
CacheJson == Str("threat-cache.json")
ServerJs == Str("server.js")

HostFiles ==
    {PUBLIC_DIR \o <<IndexHtml>>, DATA_DIR \o <<CacheJson>>,
     Dirname \o <<PublicOld, IndexHtml>>, Dirname \o <<DataOld, CacheJson>>,
     Dirname \o <<ServerJs>>}

\* The directories of the host: whatever lies above a file.
HostDirectories ==
    {SubSeq(f, 1, n) : f \in HostFiles, n \in 0..3} \ HostFiles

\* fs.readFile(filePath) and the answer of its callback: 200 with the
\* content of a file, 404 for ENOENT, 500 for any other error (a directory,
\* a file named with a slash at its end).
ReadAndAnswer(joined) ==
    IF joined.segments \in HostFiles
    THEN IF joined.slash THEN [status |-> 500, read |-> TRUE, content |-> <<>>]
         ELSE [status |-> 200, read |-> TRUE, content |-> joined.segments]
    ELSE IF joined.segments \in HostDirectories
    THEN [status |-> 500, read |-> TRUE, content |-> <<>>]
    ELSE [status |-> 404, read |-> TRUE, content |-> <<>>]

\* The request handler for a request whose URL has the segments given: the
\* path it resolves, and its answer.
handler(url) ==
    LET filePath == IF url = <<EmptySegment>> THEN <<IndexHtml>> ELSE url
        baseDir  == IF StartsWith(TextOfPath(filePath), <<"/", "data", "/">>)
                    THEN Dirname ELSE PUBLIC_DIR
        joined   == PathJoin(baseDir, filePath)
        text     == TextOfJoined(joined)
        answer   == IF /\ ~StartsWith(text, TextOfPath(PUBLIC_DIR))
                       /\ ~StartsWith(text, TextOfPath(DATA_DIR))
                    THEN [status |-> 403, read |-> FALSE, content |-> <<>>]
                    ELSE ReadAndAnswer(joined)
    IN  [handled |-> TRUE, filePath |-> joined.segments, status |-> answer.status,
         read |-> answer.read, content |-> answer.content]

\* ------------------------------------------------ inputs of the aggregator
\* Messages of request errors. A connection attempt that fails on every
\* address of the host ends in an AggregateError whose message is empty.
ErrorMessages == {"", "socket hang up"}

\* How many entries a feed returns.
UpstreamCounts == {0, 1, MaxItems, MaxUpstream}

VictimEntry(i) ==
    IF i = 1 THEN [group_name |-> "lockbit"]
    ELSE [post_title |-> "Acme", group_name |-> "lockbit"]

UrlEntry(i) == [url |-> "http://198.51.100.7/a.exe", threat |-> "malware_download"]

\* Entries of ThreatFox, with a confidence level and without one.
IocEntry(c) == [ioc |-> "198.51.100.7:443", confidence_level |-> c]
IocBare == [ioc |-> "198.51.100.7:443"]

\* The entries an answer of ThreatFox repeats.
IocPatterns ==
    {<<IocEntry(HighConfidence)>>, <<IocEntry(HighConfidence - 1)>>, <<IocBare>>,
     <<IocEntry(100), IocEntry(50)>>}

IocEntries(n, es) == [i \in 1..n |-> es[((i - 1) % Len(es)) + 1]]

\* What the requests of the three fetchers can end in. A feed answers an
\* error status with an HTML page or with a JSON object that tells the error.
FailedRequests ==
    {ReqError(m) : m \in ErrorMessages}
    \cup {Response(502, HtmlBody), Response(200, EmptyBody),
          Response(500, JsonBody([kind |-> "object"]))}

RansomwareRequests ==
    FailedRequests
    \cup {Response(200, JsonBody(JArray([i \in 1..n |-> VictimEntry(i)]))) :
            n \in UpstreamCounts}

UrlhausRequests ==
    FailedRequests
    \cup {Response(200, JsonBody([kind |-> "object",
                                  urls |-> JArray([i \in 1..n |-> UrlEntry(i)])])) :
            n \in UpstreamCounts}

ThreatfoxRequests ==
    FailedRequests
    \cup {Response(200, JsonBody([kind |-> "object", data |-> JString]))}
    \cup {Response(200, JsonBody([kind |-> "object", data |-> JArray(IocEntries(n, es))])) :
            n \in UpstreamCounts \ {0}, es \in IocPatterns}

\* The cache a previous run of the aggregator left.
PreviousCache ==
    OutputOf(<<fetchRansomwareVictims(Response(200, JsonBody(JArray(<<VictimEntry(1)>>)))).value,
               fetchMaliciousURLs(ReqError("socket hang up")).value,
               fetchIOCs(ReqError("socket hang up")).value>>)

InitialCacheFiles == {NoFile, FileWith(TextOf(PreviousCache))}

\* ------------------------------------------- inputs of the dashboard server
\* The segments a request URL is made of, and the URLs of up to MaxSegments
\* segments.
UrlSegments ==
    {EmptySegment, Str("."), Str(".."), Str("public"), PublicOld, Str("data"), DataOld,
     IndexHtml, CacheJson, ServerJs}

RequestUrls == UNION {[1..n -> UrlSegments] : n \in 1..MaxSegments}

VARIABLES
    \* detectAnomalies called on its own
    dCurrent,      \* the currentState argument
    dPrevious,     \* the previousState argument
    dResult,       \* what the call returned or threw
    dCalled,       \* whether the call was made
    \* the monitor process
    alertWebhook,  \* CONFIG.alertWebhook
    stateFile,     \* data/network-state.json
    mpc,           \* where monitor() stands in its loop
    connections,   \* const connections of this iteration
    currentState,  \* const currentState
    priorFile,     \* the state file as loadState found it in this iteration
    previousState, \* const previousState
    anomalies,     \* const anomalies
    handed,        \* what sendAlert did with each anomaly handed to it so far
    caught,        \* the error the catch block of this iteration caught
    saved,         \* whether saveState was called and wrote the state
    inflight,      \* the alert POSTs begun and not yet answered
    queried,       \* what the host had to report to each query of this iteration
    \* the aggregator process and the dashboard server
    apc,           \* where aggregateThreats() stands
    fetched,       \* per fetcher: its request's end and the promise's settlement
    output,        \* const output
    cacheFile,     \* data/threat-cache.json
    served,        \* the server's last answer to GET /data/threat-cache.json
    cacheBefore,   \* the cache file as fs.writeFileSync found it
    cacheWrites,   \* how many times this run has written the whole cache
    other,         \* where another run of the aggregator, started by cron, stands
    reqUrl,        \* req.url of a request to the dashboard server
    response       \* what the handler resolved and answered to that request

detVars == <<dCurrent, dPrevious, dResult, dCalled>>
monVars == <<alertWebhook, stateFile, mpc, connections, currentState, priorFile,
             previousState, anomalies, handed, caught, saved, inflight, queried>>
aggVars == <<apc, fetched, output, cacheFile, served, cacheBefore, cacheWrites, other,
             reqUrl, response>>
vars == <<detVars, monVars, aggVars>>

\* No query has been made in this iteration.
NotQueried == [connections |-> "no", ports |-> "no"]

\* The values of an iteration's constants before they are bound.
NoCycle ==
    /\ connections = <<>>
    /\ currentState = JsonNull
    /\ priorFile = NoFile
    /\ previousState = JsonNull
    /\ anomalies = <<>>
    /\ handed = <<>>
    /\ caught = "none"
    /\ saved = "no"
    /\ queried = NotQueried

MonitorIdle ==
    /\ alertWebhook = NoWebhook
    /\ stateFile = NoFile
    /\ mpc = "scan"
    /\ NoCycle
    /\ inflight = 0

\* A promise of a fetcher that has not settled, and what there is before
\* the output is built or a request is served.
Pending == [status |-> "pending"]
NoOutput == [summary |-> JsonNull, threats |-> <<>>]
NotServed == [status |-> 0]
NotHandled == [handled |-> FALSE, filePath |-> <<>>, status |-> 0, read |-> FALSE,
               content |-> <<>>]

AggIdle ==
    /\ apc = "start"
    /\ fetched = [i \in 1..3 |-> Pending]
    /\ output = NoOutput
    /\ cacheFile = NoFile
    /\ served = NotServed
    /\ cacheBefore = NoFile
    /\ cacheWrites = 0
    /\ other = "none"
    /\ reqUrl = <<EmptySegment>>
    /\ response = NotHandled

DetectIdle ==
    /\ dCurrent = EmptySnapshot
    /\ dPrevious = JsonNull
    /\ dResult = Returned(<<>>)
    /\ dCalled = FALSE

\* --------------------------------------------- detectAnomalies on its own
DetectInit ==
    /\ dCurrent \in CurrentSnapshots
    /\ dPrevious \in PreviousValues
    /\ dResult = Returned(<<>>)
    /\ dCalled = FALSE
    /\ MonitorIdle
    /\ AggIdle

CallDetect ==
    /\ ~dCalled
    /\ dResult' = detectAnomalies(dCurrent, dPrevious)
    /\ dCalled' = TRUE
    /\ UNCHANGED <<dCurrent, dPrevious>>
    /\ UNCHANGED monVars
    /\ UNCHANGED aggVars

DetectNext == CallDetect

DetectSpec == DetectInit /\ [][DetectNext]_vars

\* ------------------------------------------------------------ the monitor
\* The iteration's constants go out of scope.
EndCycle ==
    /\ connections' = <<>>
    /\ currentState' = JsonNull
    /\ priorFile' = NoFile
    /\ previousState' = JsonNull
    /\ anomalies' = <<>>
    /\ handed' = <<>>
    /\ caught' = "none"
    /\ saved' = "no"
    /\ queried' = NotQueried

MonitorInit ==
    /\ alertWebhook \in WebhookConfigs
    /\ stateFile \in InitialStateFiles
    /\ mpc = "scan"
    /\ NoCycle
    /\ inflight = 0
    /\ DetectIdle
    /\ AggIdle

\* await getNetworkConnections(): a rejection goes to the catch block.
CollectConnections ==
    /\ mpc = "scan"
    /\ \E res \in MonitorSsResults :
         LET r == getNetworkConnections(res)
         IN  /\ queried' = [queried EXCEPT !.connections = SsFound(res)]
             /\ IF r.threw
                THEN /\ caught' = r.value
                     /\ mpc' = "errwait"
                     /\ UNCHANGED connections
                ELSE /\ connections' = r.value
                     /\ mpc' = "ports"
                     /\ UNCHANGED caught
    /\ UNCHANGED <<alertWebhook, stateFile, currentState, priorFile, previousState,
                   anomalies, handed, saved, inflight>>
    /\ UNCHANGED <<detVars, aggVars>>

\* await getListeningPorts(), whose command runs on the host's sockets or
\* cannot be run at all; then currentState is built.
CollectPorts ==
    /\ mpc = "ports"
    /\ \E ran \in BOOLEAN, sockets \in MonitorSocketTables :
         LET res == IF ran THEN ListenCommand(sockets) ELSE ExecFailed
             r   == getListeningPorts(res)
         IN  /\ queried' = [queried EXCEPT !.ports = Found(ran, sockets)]
             /\ IF r.threw
                THEN /\ caught' = r.value
                     /\ mpc' = "errwait"
                     /\ UNCHANGED currentState
                ELSE /\ currentState' = CurrentStateOf(connections, r.value)
                     /\ mpc' = "load"
                     /\ UNCHANGED caught
    /\ UNCHANGED <<alertWebhook, stateFile, connections, priorFile, previousState,
                   anomalies, handed, saved, inflight>>
    /\ UNCHANGED <<detVars, aggVars>>

\* const previousState = loadState()
LoadState ==
    /\ mpc = "load"
    /\ priorFile' = stateFile
    /\ previousState' = loadState(stateFile)
    /\ mpc' = "detect"
    /\ UNCHANGED <<alertWebhook, stateFile, connections, currentState, anomalies,
                   handed, caught, saved, inflight>>
    /\ UNCHANGED queried
    /\ UNCHANGED <<detVars, aggVars>>

\* const anomalies = detectAnomalies(currentState, previousState): an
\* exception goes to the catch block.
Detect ==
    /\ mpc = "detect"
    /\ LET r == detectAnomalies(currentState, previousState)
       IN  IF r.threw
           THEN /\ caught' = r.value
                /\ mpc' = "errwait"
                /\ UNCHANGED anomalies
           ELSE /\ anomalies' = r.value
                /\ mpc' = IF r.value = <<>> THEN "save" ELSE "dispatch"
                /\ UNCHANGED caught
    /\ UNCHANGED <<alertWebhook, stateFile, connections, currentState, priorFile,
                   previousState, handed, saved, inflight>>
    /\ UNCHANGED queried
    /\ UNCHANGED <<detVars, aggVars>>

\* One turn of anomalies.forEach: sendAlert(anomaly). An exception leaves
\* forEach and goes to the catch block.
Dispatch ==
    /\ mpc = "dispatch"
    /\ LET r == sendAlert(anomalies[Len(handed) + 1], alertWebhook)
       IN  IF r.threw
           THEN /\ caught' = r.value
                /\ mpc' = "errwait"
                /\ UNCHANGED <<handed, inflight>>
           ELSE /\ handed' = Append(handed, r.value)
                /\ inflight' = IF r.value.via = "post" THEN inflight + 1 ELSE inflight
                /\ mpc' = IF Len(handed) + 1 = Len(anomalies) THEN "save" ELSE "dispatch"
                /\ UNCHANGED caught
    /\ UNCHANGED <<alertWebhook, stateFile, connections, currentState, priorFile,
                   previousState, anomalies, saved>>
    /\ UNCHANGED queried
    /\ UNCHANGED <<detVars, aggVars>>

\* saveState: fs.writeFileSync opens the state file for writing, which
\* empties it; a failure to open is caught and logged by saveState.
SaveOpen ==
    /\ mpc = "save"
    /\ \E opened \in BOOLEAN :
         IF opened
         THEN /\ stateFile' = FileWith(EmptyText)
              /\ mpc' = "write"
              /\ UNCHANGED saved
         ELSE /\ saved' = "failed"
              /\ mpc' = "sleep"
              /\ UNCHANGED stateFile
    /\ UNCHANGED <<alertWebhook, connections, currentState, priorFile, previousState,
                   anomalies, handed, caught, inflight>>
    /\ UNCHANGED queried
    /\ UNCHANGED <<detVars, aggVars>>

\* saveState: fs.writeFileSync writes the serialized state; a failed write
\* (a full disk) leaves the file empty or written in part, and is caught
\* and logged by saveState.
SaveWrite ==
    /\ mpc = "write"
    /\ \/ /\ stateFile' = FileWith(JsonStringify(currentState))
          /\ saved' = "yes"
       \/ /\ stateFile' \in {FileWith(EmptyText), FileWith(CutText(JsonValueOf(currentState)))}
          /\ saved' = "failed"
    /\ mpc' = "sleep"
    /\ UNCHANGED <<alertWebhook, connections, currentState, priorFile, previousState,
                   anomalies, handed, caught, inflight>>
    /\ UNCHANGED queried
    /\ UNCHANGED <<detVars, aggVars>>

\* The wait of CONFIG.checkInterval ends and the loop starts its next
\* iteration.
SleepElapsed ==
    /\ mpc = "sleep"
    /\ inflight + MaxAnomalies <= MaxInflight
    /\ mpc' = "scan"
    /\ EndCycle
    /\ UNCHANGED <<alertWebhook, stateFile, inflight>>
    /\ UNCHANGED <<detVars, aggVars>>

\* Mutant: the catch block ends the process instead of waiting.
ErrorExits ==
    /\ mpc = "errwait"
    /\ mpc' = "exited"
    /\ UNCHANGED <<alertWebhook, stateFile, connections, currentState, priorFile,
                   previousState, anomalies, handed, caught, saved, inflight>>
    /\ UNCHANGED queried
    /\ UNCHANGED <<detVars, aggVars>>

\* The 5 s wait of the catch block ends and the loop starts its next
\* iteration.
ErrorWaitElapsed ==
    /\ mpc = "errwait"
    /\ inflight + MaxAnomalies <= MaxInflight
    /\ mpc' = "scan"
    /\ EndCycle
    /\ UNCHANGED <<alertWebhook, stateFile, inflight>>
    /\ UNCHANGED <<detVars, aggVars>>

\* Where monitor() awaits: only there can a callback of an alert request run.
Awaiting == mpc \in {"scan", "ports", "sleep", "errwait"}

\* The answer to an alert POST: status 204, another status (logged) or a
\* request error (logged). None of them is retried.
AlertAnswered ==
    /\ Awaiting
    /\ inflight > 0
    /\ \E outcome \in {"204", "status", "error"} : inflight' = inflight - 1
    /\ UNCHANGED <<alertWebhook, stateFile, mpc, connections, currentState, priorFile,
                   previousState, anomalies, handed, caught, saved>>
    /\ UNCHANGED queried
    /\ UNCHANGED <<detVars, aggVars>>

MonitorNext ==
    \/ CollectConnections
    \/ CollectPorts
    \/ LoadState
    \/ Detect
    \/ Dispatch
    \/ SaveOpen
    \/ SaveWrite
    \/ SleepElapsed
    \/ ErrorWaitElapsed
    \/ AlertAnswered

MonitorSpec == MonitorInit /\ [][MonitorNext]_vars

\* The process of the monitor is ended from outside (a kill, a power cut)
\* wherever it stands; its files stay as they are.
Crash ==
    /\ mpc # "crashed"
    /\ mpc' = "crashed"
    /\ UNCHANGED <<alertWebhook, stateFile, connections, currentState, priorFile,
                   previousState, anomalies, handed, caught, saved, inflight>>
    /\ UNCHANGED queried
    /\ UNCHANGED <<detVars, aggVars>>

CrashNext == MonitorNext \/ Crash

CrashSpec == MonitorInit /\ [][CrashNext]_vars

\* The steps of the loop itself: each is a command that ends, synchronous
\* code, or a timer that fires.
LoopStep ==
    \/ CollectConnections
    \/ CollectPorts
    \/ LoadState
    \/ Detect
    \/ Dispatch
    \/ SaveOpen
    \/ SaveWrite
    \/ SleepElapsed
    \/ ErrorWaitElapsed

\* The monitor under fair scheduling: the loop takes its next step, and an
\* alert request gets its answer or its error.
MonitorLive ==
    /\ MonitorInit
    /\ [][MonitorNext]_vars
    /\ WF_vars(LoopStep)
    /\ WF_vars(AlertAnswered)

\* --------------------------------------------------------- the aggregator
AggInit ==
    /\ apc = "start"
    /\ fetched = [i \in 1..3 |-> Pending]
    /\ output = NoOutput
    /\ cacheFile \in InitialCacheFiles
    /\ served = NotServed
    /\ cacheBefore = NoFile
    /\ cacheWrites = 0
    /\ other = "none"
    /\ reqUrl = <<EmptySegment>>
    /\ response = NotHandled
    /\ DetectIdle
    /\ MonitorIdle

\* Promise.allSettled([...]): the three fetchers are called, each runs up
\* to its await of httpRequest.
StartFetchers ==
    /\ apc = "start"
    /\ apc' = "fetching"
    /\ UNCHANGED <<fetched, output, cacheFile, served>>
    /\ UNCHANGED <<cacheBefore, cacheWrites, other>>
    /\ UNCHANGED <<reqUrl, response>>
    /\ UNCHANGED <<detVars, monVars>>

\* The promise of fetcher i settles: fulfilled with a value, or rejected.
Settled(req, r) ==
    IF r.threw THEN [status |-> "rejected", request |-> req, reason |-> r.value]
    ELSE [status |-> "fulfilled", request |-> req, value |-> r.value]

\* The request of fetchRansomwareVictims ends and the fetcher returns.
RansomwareSettles ==
    /\ apc = "fetching"
    /\ fetched[1] = Pending
    /\ \E req \in RansomwareRequests :
         fetched' = [fetched EXCEPT ![1] = Settled(req, fetchRansomwareVictims(req))]
    /\ UNCHANGED <<apc, output, cacheFile, served>>
    /\ UNCHANGED <<cacheBefore, cacheWrites, other>>
    /\ UNCHANGED <<reqUrl, response>>
    /\ UNCHANGED <<detVars, monVars>>

\* The request of fetchMaliciousURLs ends and the fetcher returns.
UrlhausSettles ==
    /\ apc = "fetching"
    /\ fetched[2] = Pending
    /\ \E req \in UrlhausRequests :
         fetched' = [fetched EXCEPT ![2] = Settled(req, fetchMaliciousURLs(req))]
    /\ UNCHANGED <<apc, output, cacheFile, served>>
    /\ UNCHANGED <<cacheBefore, cacheWrites, other>>
    /\ UNCHANGED <<reqUrl, response>>
    /\ UNCHANGED <<detVars, monVars>>

\* The request of fetchIOCs ends and the fetcher returns.
ThreatfoxSettles ==
    /\ apc = "fetching"
    /\ fetched[3] = Pending
    /\ \E req \in ThreatfoxRequests :
         fetched' = [fetched EXCEPT ![3] = Settled(req, fetchIOCs(req))]
    /\ UNCHANGED <<apc, output, cacheFile, served>>
    /\ UNCHANGED <<cacheBefore, cacheWrites, other>>
    /\ UNCHANGED <<reqUrl, response>>
    /\ UNCHANGED <<detVars, monVars>>

\* const threats = results.map(...)
ThreatsOf(results) ==
    [i \in 1..Len(results) |->
        IF results[i].status = "fulfilled" THEN results[i].value
        ELSE [error |-> results[i].reason]]

\* The await of Promise.allSettled returns once every promise has settled;
\* threats, summary and output are built.
Join ==
    /\ apc = "fetching"
    /\ \A i \in 1..3 : fetched[i] # Pending
    /\ output' = OutputOf(ThreatsOf(fetched))
    /\ apc' = "cache"
    /\ UNCHANGED <<fetched, cacheFile, served>>
    /\ UNCHANGED <<cacheBefore, cacheWrites, other>>
    /\ UNCHANGED <<reqUrl, response>>
    /\ UNCHANGED <<detVars, monVars>>

\* Mutant: the cache file is opened without waiting for the fetchers.
CacheOpenBeforeJoin ==
    /\ apc \in {"fetching", "cache"}
    /\ cacheFile' = FileWith(EmptyText)
    /\ cacheBefore' = cacheFile
    /\ apc' = "writing"
    /\ UNCHANGED <<fetched, output, served, cacheWrites, other>>
    /\ UNCHANGED <<reqUrl, response>>
    /\ UNCHANGED <<detVars, monVars>>

\* Mutant: the cache file is opened without being emptied.
CacheOpenKeeping ==
    /\ apc = "cache"
    /\ cacheFile' = IF cacheFile.exists THEN cacheFile ELSE FileWith(EmptyText)
    /\ cacheBefore' = cacheFile
    /\ apc' = "writing"
    /\ UNCHANGED <<fetched, output, served, cacheWrites, other>>
    /\ UNCHANGED <<reqUrl, response>>
    /\ UNCHANGED <<detVars, monVars>>

\* fs.writeFileSync(CACHE_FILE, ...) opens the cache file for writing, which
\* empties it; a failure to open rejects aggregateThreats.
CacheOpen ==
    /\ apc = "cache"
    /\ \E opened \in BOOLEAN :
         IF opened
         THEN /\ cacheFile' = FileWith(EmptyText)
              /\ cacheBefore' = cacheFile
              /\ apc' = "writing"
         ELSE /\ apc' = "failed"
              /\ UNCHANGED <<cacheFile, cacheBefore>>
    /\ UNCHANGED <<fetched, output, served, cacheWrites, other>>
    /\ UNCHANGED <<reqUrl, response>>
    /\ UNCHANGED <<detVars, monVars>>

\* What a write of text at the start of the opened file leaves: the text,
\* or, over a longer text that another writer has put there in between,
\* the text followed by the rest of that one.
WriteAtStart(file, text) ==
    IF file.text.len = "none" \/ file.text = text
    THEN {FileWith(text)}
    ELSE {FileWith(text), FileWith(MixedText)}

\* fs.writeFileSync writes the serialized output; a failed write (a full
\* disk) leaves the file written in part and rejects aggregateThreats.
CacheWrite ==
    /\ apc = "writing"
    /\ \/ /\ cacheFile' \in WriteAtStart(cacheFile, TextOf(output))
          /\ cacheWrites' = cacheWrites + 1
          /\ apc' = "done"
       \/ /\ cacheFile' = FileWith(CutText(output))
          /\ apc' = "failed"
          /\ UNCHANGED cacheWrites
    /\ UNCHANGED <<fetched, output, served, cacheBefore, other>>
    /\ UNCHANGED <<reqUrl, response>>
    /\ UNCHANGED <<detVars, monVars>>

\* The dashboard server, a process of its own, answers a request for
\* /data/threat-cache.json.
ServeCache ==
    /\ served' = ServeFile(cacheFile)
    /\ UNCHANGED <<apc, fetched, output, cacheFile>>
    /\ UNCHANGED <<cacheBefore, cacheWrites, other>>
    /\ UNCHANGED <<reqUrl, response>>
    /\ UNCHANGED <<detVars, monVars>>

AggNext ==
    \/ StartFetchers
    \/ RansomwareSettles
    \/ UrlhausSettles
    \/ ThreatfoxSettles
    \/ Join
    \/ CacheOpen
    \/ CacheWrite
    \/ ServeCache

AggSpec == AggInit /\ [][AggNext]_vars

\* The steps aggregateThreats takes by itself: synchronous code, and the
\* continuation of an await whose promises have settled.
AggStep ==
    \/ StartFetchers
    \/ Join
    \/ CacheOpen
    \/ CacheWrite

\* The aggregator under fair scheduling: the run takes its own next step.
\* That a request ends is the feed's doing: httpRequest sets no timeout on
\* the request and listens to no 'timeout' event, so no step of the program
\* ends a request that the feed leaves unanswered.
AggLive ==
    /\ AggInit
    /\ [][AggNext]_vars
    /\ WF_vars(AggStep)

\* ---------------------------------------------------- the dashboard server
ServerInit ==
    /\ reqUrl \in RequestUrls
    /\ response = NotHandled
    /\ apc = "start"
    /\ fetched = [i \in 1..3 |-> Pending]
    /\ output = NoOutput
    /\ cacheFile = NoFile
    /\ served = NotServed
    /\ cacheBefore = NoFile
    /\ cacheWrites = 0
    /\ other = "none"
    /\ DetectIdle
    /\ MonitorIdle

\* The handler answers the request.
HandleRequest ==
    /\ ~response.handled
    /\ response' = handler(reqUrl)
    /\ UNCHANGED <<apc, fetched, output, cacheFile, served, cacheBefore, cacheWrites,
                   other, reqUrl>>
    /\ UNCHANGED <<detVars, monVars>>

ServerNext == HandleRequest

ServerSpec == ServerInit /\ [][ServerNext]_vars

\* ------------------------------------- the aggregator as started by cron
\* cron starts node src/threat-aggregator.js every five minutes, whether or
\* not an earlier run has ended. Of another run than the one followed above
\* only the steps are kept; its feeds answer as follows.
OtherOutput ==
    OutputOf(<<fetchRansomwareVictims(Response(200, JsonBody(JArray(<<VictimEntry(1)>>)))).value,
               fetchMaliciousURLs(Response(200, JsonBody([kind |-> "object",
                                       urls |-> JArray(<<UrlEntry(1)>>)]))).value,
               fetchIOCs(ReqError("socket hang up")).value>>)

\* cron starts another run; its fetchers are called.
CronStartsOther ==
    /\ other = "none"
    /\ other' = "fetching"
    /\ UNCHANGED <<apc, fetched, output, cacheFile, served, cacheBefore, cacheWrites>>
    /\ UNCHANGED <<reqUrl, response>>
    /\ UNCHANGED <<detVars, monVars>>

\* The fetchers of the other run have settled and it has built its output.
OtherJoins ==
    /\ other = "fetching"
    /\ other' = "cache"
    /\ UNCHANGED <<apc, fetched, output, cacheFile, served, cacheBefore, cacheWrites>>
    /\ UNCHANGED <<reqUrl, response>>
    /\ UNCHANGED <<detVars, monVars>>

\* fs.writeFileSync of the other run opens the cache file, which empties it.
OtherCacheOpen ==
    /\ other = "cache"
    /\ \E opened \in BOOLEAN :
         IF opened
         THEN /\ cacheFile' = FileWith(EmptyText)
              /\ other' = "writing"
         ELSE /\ other' = "failed"
              /\ UNCHANGED cacheFile
    /\ UNCHANGED <<apc, fetched, output, served, cacheBefore, cacheWrites>>
    /\ UNCHANGED <<reqUrl, response>>
    /\ UNCHANGED <<detVars, monVars>>

\* fs.writeFileSync of the other run writes its output, or fails midway.
OtherCacheWrite ==
    /\ other = "writing"
    /\ \/ /\ cacheFile' \in WriteAtStart(cacheFile, TextOf(OtherOutput))
          /\ other' = "done"
       \/ /\ cacheFile' = FileWith(CutText(OtherOutput))
          /\ other' = "failed"
    /\ UNCHANGED <<apc, fetched, output, served, cacheBefore, cacheWrites>>
    /\ UNCHANGED <<reqUrl, response>>
    /\ UNCHANGED <<detVars, monVars>>

CronNext ==
    \/ StartFetchers
    \/ RansomwareSettles
    \/ UrlhausSettles
    \/ ThreatfoxSettles
    \/ Join
    \/ CacheOpen
    \/ CacheWrite
    \/ CronStartsOther
    \/ OtherJoins
    \/ OtherCacheOpen
    \/ OtherCacheWrite

CronSpec == AggInit /\ [][CronNext]_vars

\* ------------------------------------------------ claims on detectAnomalies
\* v is a well-formed snapshot.
IsSnapshot(v) == v.kind = "object" /\ "ports" \in DOMAIN v /\ "connections" \in DOMAIN v

\* The anomalies of the type given among those returned.
OfType(anoms, type) ==
    LET Is(a) == a.type = type IN SelectSeq(anoms, Is)

\* C1: with a previous snapshot present, detectAnomalies emits a
\* connection_spike event if and only if the current connection count c and
\* the previous count p satisfy c > 2*p and c > 50 (not at c = 50, not at
\* c = 2*p, and also for p = 0).
C1_SpikeIff ==
    (dCalled /\ IsSnapshot(dPrevious)) =>
        LET c == Len(dCurrent.connections)
            p == Len(dPrevious.connections)
        IN  /\ ~dResult.threw
            /\ (OfType(dResult.value, "connection_spike") # <<>>) <=> (c > 2 * p /\ c > 50)

\* C1 witness: the smallest spike (51 connections after 25) was reported.
C1_Witness ==
    /\ dCalled /\ IsSnapshot(dPrevious)
    /\ Len(dCurrent.connections) = 51 /\ Len(dPrevious.connections) = 25
    /\ OfType(dResult.value, "connection_spike") # <<>>

\* C2: with a previous snapshot present, no new_listening_port event is
\* emitted when every port number of current.ports occurs in previous.ports
\* (whatever the protocols); otherwise exactly one is emitted, and its details
\* are exactly the entries of current.ports whose port number does not occur
\* in previous.ports.
C2_NewPortsExact ==
    (dCalled /\ IsSnapshot(dPrevious)) =>
        LET Unseen(p) == \A i \in 1..Len(dPrevious.ports) : dPrevious.ports[i].port # p.port
            fresh == SelectSeq(dCurrent.ports, Unseen)
            evs == OfType(dResult.value, "new_listening_port")
        IN  /\ ~dResult.threw
            /\ IF fresh = <<>> THEN evs = <<>>
               ELSE Len(evs) = 1 /\ evs[1].details.ports = fresh

\* C2 witness: of two current ports one was already listening, and the event
\* carries the other one alone.
C2_Witness ==
    /\ dCalled /\ IsSnapshot(dPrevious)
    /\ Len(dCurrent.ports) = 2 /\ Len(dPrevious.ports) = 1
    /\ Len(OfType(dResult.value, "new_listening_port")) = 1
    /\ Len(OfType(dResult.value, "new_listening_port")[1].details.ports) = 1

\* C3: detectAnomalies(S, no previous state) returns the empty list and does
\* not fail, whatever S holds.
C3_NoPreviousNoAnomaly ==
    (dCalled /\ dPrevious = JsonNull) => dResult = Returned(<<>>)

\* C3 witness: a call without previous state on a snapshot that holds a
\* suspicious connection, more than 50 connections and listening ports.
C3_Witness ==
    /\ dCalled /\ dPrevious = JsonNull
    /\ SuspiciousConns(dCurrent) # <<>>
    /\ Len(dCurrent.connections) > 50
    /\ Len(dCurrent.ports) > 0
    /\ dResult = Returned(<<>>)
\* ------------------------------------------------ claims on the monitor
\* The connections of a list whose peer address ends in a suspicious port.
WithBadPeer(conns) ==
    LET Bad(c) == /\ "peer" \in DOMAIN c
                  /\ c.peer # Undefined
                  /\ ParseInt(c.peer[Len(c.peer)]) \in {4444, 5555, 6666, 8888, 31337, 12345}
    IN  SelectSeq(conns, Bad)

\* The suspicious_port events are as the claim wants them: at most one, and
\* one listing all and only the matching connections when there is any.
SuspiciousEventExact ==
    LET bad == WithBadPeer(currentState.connections)
        evs == OfType(anomalies, "suspicious_port")
    IN  IF bad = <<>> THEN evs = <<>>
        ELSE Len(evs) = 1 /\ evs[1].details.conns = bad

\* detectAnomalies has returned in this iteration.
DetectReturned ==
    \/ mpc \in {"dispatch", "save", "write", "sleep"}
    \/ mpc = "errwait" /\ anomalies # <<>>

\* C4 as stated: in every monitor cycle, whatever was loaded as previous
\* state, the suspicious connections are all listed in exactly one
\* suspicious_port event.
C4_EveryCycle == DetectReturned => SuspiciousEventExact

\* C4 as amended: in every monitor cycle that loaded a previous snapshot, at
\* most one suspicious_port event is emitted and it lists all and only the
\* current connections whose peer port is suspicious; a cycle that loaded no
\* previous state emits no suspicious_port event.
C4_WithBaseline ==
    /\ (mpc # "detect" /\ IsSnapshot(previousState)) => SuspiciousEventExact
    /\ (DetectReturned /\ previousState = JsonNull) =>
           OfType(anomalies, "suspicious_port") = <<>>

\* C4 witness: a cycle with a baseline found 2 suspicious connections among
\* 51 and listed them in its one event.
C4_Witness ==
    /\ mpc = "sleep" /\ IsSnapshot(previousState)
    /\ Len(currentState.connections) = 51
    /\ Len(OfType(anomalies, "suspicious_port")) = 1
    /\ Len(OfType(anomalies, "suspicious_port")[1].details.conns) = 2

\* The state file the iteration loaded gives no baseline: it is missing, it
\* does not parse, or it parses to something that is no snapshot.
NoBaselineFile(file) ==
    \/ ~file.exists
    \/ JsonParse(file.text).threw
    \/ ~IsSnapshot(JsonParse(file.text).value)

\* The iteration has loaded the state file and has ended.
CycleEndedAfterLoad == mpc \in {"sleep", "errwait"} /\ currentState # JsonNull

\* C5: a cycle whose prior state file is missing or corrupt (unparseable, or
\* parseable but no snapshot) raises no error, emits no anomaly and goes on
\* to save the current snapshot, which a successful write leaves in the state
\* file.
C5_CorruptIsNoBaseline ==
    (CycleEndedAfterLoad /\ NoBaselineFile(priorFile)) =>
        /\ caught = "none"
        /\ anomalies = <<>>
        /\ saved # "no"
        /\ (saved = "yes" => stateFile = FileWith(JsonStringify(currentState)))

\* C8: sendAlert never raises: in a cycle that detected anomalies, whatever
\* the webhook configuration, nothing is caught, all the anomalies are handed
\* to sendAlert before saveState, and the cycle reaches saveState.
C8_AlertNeverRaises ==
    (anomalies # <<>>) =>
        /\ caught = "none"
        /\ (mpc \in {"save", "write", "sleep"} => Len(handed) = Len(anomalies))
        /\ (mpc \in {"sleep", "errwait"} => saved # "no")

\* ------------------------------------------------ claims on the aggregator
\* aggregateThreats has built its output.
Joined == apc \in {"cache", "writing", "done", "failed"}

\* The names of the three configured feeds, in the order of the fetchers.
FeedNames == <<"Ransomware.live", "URLhaus", "ThreatFox">>

\* Fetcher i failed: its try block threw and its catch block returned.
FetcherFailed(i) ==
    LET req == fetched[i].request
    IN  CASE i = 1 -> RansomwareTry(req).threw
          [] i = 2 -> UrlhausTry(req).threw
          [] i = 3 -> ThreatfoxTry(req).threw

\* The items of the fetchers that did not fail, counted.
SucceededItems ==
    LET n(i) == IF FetcherFailed(i) THEN 0 ELSE Len(fetched[i].value.items)
    IN  n(1) + n(2) + n(3)

\* C6: whatever subset of the three fetchers fails, summary.sources has
\* three entries, one per feed; a failed feed's entry has status "error" and
\* count 0, a succeeding feed's entry has status "ok"; totalThreats counts
\* the items of the succeeding feeds only.
C6_FailedFeedsReported ==
    Joined =>
        LET sources == output.summary.sources
        IN  /\ Len(sources) = 3
            /\ \A i \in 1..3 :
                 /\ sources[i].name = FeedNames[i]
                 /\ FetcherFailed(i) => sources[i].status = "error" /\ sources[i].count = 0
                 /\ ~FetcherFailed(i) => sources[i].status = "ok"
            /\ output.summary.totalThreats = SucceededItems

\* The request ended in a network error or a timeout, in a status that is
\* no success, or in a body that is no JSON.
RequestFailed(req) ==
    \/ req.kind = "error"
    \/ req.kind = "response" /\ req.statusCode \notin 200..299
    \/ req.kind = "response" /\ req.body.text = "html"

\* C7: a fetcher never rejects, and when its request failed (network error,
\* timeout, non-success status, undecodable JSON) the SourceResult it
\* returns has the error property and no items.
C7_FailureIsErrorResult ==
    \A i \in 1..3 :
        fetched[i] # Pending =>
            /\ fetched[i].status = "fulfilled"
            /\ RequestFailed(fetched[i].request) =>
                   /\ "error" \in DOMAIN fetched[i].value
                   /\ fetched[i].value.items = <<>>

\* C9: what the server reads of the cache file while the aggregator runs is
\* a whole cache, the previous one or the new one, never an empty file or a
\* part of one.
C9_ReaderSeesWholeCache ==
    served.status = 200 => served.content.len = "all"

\* The items of the three SourceResults, as places <<source, index>>.
AllItems == {p \in (1..3) \X (1..MaxItems) : p[2] <= Len(fetched[p[1]].value.items)}

\* C10: summary.totalThreats is the sum of items.length over the
\* SourceResults of the cycle, summary.highSeverity the number of their items
\* of severity "high", and highSeverity <= totalThreats.
C10_SummaryCounts ==
    Joined =>
        /\ \A i \in 1..3 : output.threats[i] = fetched[i].value
        /\ output.summary.totalThreats = Cardinality(AllItems)
        /\ output.summary.highSeverity =
             Cardinality({p \in AllItems : fetched[p[1]].value.items[p[2]].severity = "high"})
        /\ output.summary.highSeverity <= output.summary.totalThreats

\* C10 witness: a cycle in which a feed returned more entries than are kept
\* and some but not all of the items are of high severity.
C10_Witness ==
    /\ apc = "done"
    /\ \E i \in 1..3 : "count" \in DOMAIN fetched[i].value
                       /\ fetched[i].value.count > Len(fetched[i].value.items)
    /\ output.summary.highSeverity > 0
    /\ output.summary.highSeverity < output.summary.totalThreats

\* Every promise handed to Promise.allSettled has settled.
AllSettled == \A i \in 1..3 : fetched[i] # Pending

\* C11: the three fetchers run concurrently (while the cycle is fetching,
\* each fetcher that has not settled can settle, whatever the others did);
\* the summary is built and the cache file touched only after all three
\* have settled; every combination of failed and succeeding fetchers goes on
\* to the summary; and a cycle that ends has written the cache exactly once.
C11_JoinThenWriteOnce ==
    /\ (apc = "fetching" /\ fetched[1] = Pending) => ENABLED RansomwareSettles
    /\ (apc = "fetching" /\ fetched[2] = Pending) => ENABLED UrlhausSettles
    /\ (apc = "fetching" /\ fetched[3] = Pending) => ENABLED ThreatfoxSettles
    /\ (apc = "fetching" /\ AllSettled) => ENABLED Join
    /\ Joined => AllSettled /\ output = OutputOf(ThreatsOf(fetched))
    /\ apc \in {"start", "fetching", "cache"} =>
           cacheWrites = 0 /\ cacheFile \in InitialCacheFiles
    /\ cacheWrites <= 1
    /\ apc = "done" => cacheWrites = 1 /\ cacheFile = FileWith(TextOf(output))

\* C11 witness: a cycle in which the first and the third fetcher failed and
\* the second succeeded has written the cache once.
C11_Witness ==
    /\ apc = "done" /\ cacheWrites = 1
    /\ FetcherFailed(1) /\ ~FetcherFailed(2) /\ FetcherFailed(3)
    /\ output.summary.totalThreats > 0

\* ---------------------------------------- claims on the order of a cycle
\* The file holds a whole snapshot.
HoldsSnapshot(file) ==
    file.exists /\ ~JsonParse(file.text).threw /\ IsSnapshot(JsonParse(file.text).value)

\* The steps of a cycle come in the order collect, load, detect, dispatch,
\* persist, and the state file is not written before detection has read it.
StepsInOrder ==
    /\ mpc \in {"load", "detect", "dispatch", "save", "write", "sleep"} =>
           currentState = CurrentStateOf(connections, currentState.ports)
    /\ mpc \in {"detect", "dispatch", "save", "write", "sleep"} =>
           previousState = loadState(priorFile)
    /\ mpc \in {"detect", "dispatch", "save"} => stateFile = priorFile
    /\ mpc \in {"dispatch", "save", "write", "sleep"} =>
           anomalies = detectAnomalies(currentState, previousState).value
    /\ mpc \in {"save", "write", "sleep"} => Len(handed) = Len(anomalies)
    /\ saved # "no" => mpc = "sleep"

\* The state file is a single slot that holds the snapshot of the last
\* cycle that saved: a cycle that saved has left its own snapshot, a cycle
\* that ended without saving has left the whole snapshot it loaded.
SingleSlot ==
    /\ saved = "yes" => stateFile = FileWith(JsonStringify(currentState))
    /\ (mpc \in {"sleep", "errwait"} /\ saved # "yes" /\ HoldsSnapshot(priorFile)) =>
           stateFile = priorFile

\* C12: within a cycle the steps occur in the order collect, load previous,
\* detect, dispatch, persist; the state file is written only after detection
\* has read it; and the baseline a cycle loads is the snapshot of the most
\* recent earlier cycle that saved, so a cycle that does not save leaves the
\* snapshot it found.
C12_OrderedSingleSlot == StepsInOrder /\ SingleSlot

\* ------------------------------------------------- claims on overlapping
\* A run of the aggregator is between its start and the end of its write.
InCycle(pc) == pc \in {"fetching", "cache", "writing"}

\* C13: no aggregation cycle overlaps another one: at most one run started
\* by the scheduler is between its start and its cache write, and the cache
\* file never has two writers (no write lands on the text of another).
C13_NoOverlap ==
    /\ ~(InCycle(apc) /\ InCycle(other))
    /\ ~(apc = "writing" /\ other = "writing")
    /\ cacheFile.text.len # "mixed"

\* ------------------------------------------------- claims on termination
\* The cycle has failed: an error of a collection, of detection or of
\* dispatch was caught, or the write of the state file failed.
CycleFailed == mpc = "errwait" \/ (mpc = "sleep" /\ saved = "failed")

\* C14: no failure ends the monitor: after a cycle that failed at any step
\* (collection, detection, dispatch, the write of the state file) the loop
\* goes on and starts another cycle.
C14_FailedCycleRetries == CycleFailed ~> (mpc = "scan")

\* C14 witness: a cycle is running after the write of the state file failed
\* and left the file empty.
C14_Witness ==
    /\ mpc = "ports"
    /\ stateFile = FileWith(EmptyText)

\* ------------------------------------------- claims on the rules together
\* The types of the rules whose condition holds on (current, previous).
RulesThatHold(current, previous) ==
    {t \in {"new_listening_port"} :
        \E i \in 1..Len(current.ports) :
            \A j \in 1..Len(previous.ports) : previous.ports[j].port # current.ports[i].port}
    \cup {t \in {"connection_spike"} :
            /\ Len(current.connections) > 2 * Len(previous.connections)
            /\ Len(current.connections) > 50}
    \cup {t \in {"suspicious_port"} : WithBadPeer(current.connections) # <<>>}

\* The severity of each type of event.
SeverityOfType(type) ==
    CASE type = "new_listening_port" -> "medium"
      [] type = "connection_spike"   -> "high"
      [] type = "suspicious_port"    -> "critical"

\* C15: with a previous snapshot present, the types of the events that
\* detectAnomalies returns are exactly the rules whose condition holds, each
\* type at most once, and the severity of an event is the one of its type
\* whatever the numbers.
C15_RulesIndependent ==
    (dCalled /\ IsSnapshot(dPrevious)) =>
        /\ ~dResult.threw
        /\ {dResult.value[i].type : i \in 1..Len(dResult.value)}
             = RulesThatHold(dCurrent, dPrevious)
        /\ Len(dResult.value) = Cardinality(RulesThatHold(dCurrent, dPrevious))
        /\ \A i \in 1..Len(dResult.value) :
             dResult.value[i].severity = SeverityOfType(dResult.value[i].type)

\* C15 witness: the three rules held at once and three events were returned.
C15_Witness ==
    /\ dCalled /\ IsSnapshot(dPrevious)
    /\ Len(dResult.value) = 3

\* --------------------------------------------------- claims on delivery
\* The one attempt that the configuration calls for: the local log when no
\* webhook is configured, a POST when one is.
AttemptFor(anomaly) ==
    [type |-> anomaly.type, via |-> IF alertWebhook = NoWebhook THEN "log" ELSE "post"]

\* C16: every anomaly detected in a cycle gets exactly one delivery attempt
\* and none is dropped: once dispatch is over, each anomaly has been logged
\* (no webhook configured, no request sent) or has had one POST issued (a
\* webhook configured); the answer to a POST issues no other.
C16_OneAttemptEach ==
    (anomalies # <<>> /\ mpc \in {"save", "write", "sleep", "errwait"}) =>
        /\ Len(handed) = Len(anomalies)
        /\ \A i \in 1..Len(anomalies) : handed[i] = AttemptFor(anomalies[i])
        /\ (alertWebhook = NoWebhook => inflight = 0)

\* ------------------------------------------------- claims on the items
\* The entries the feed of fetcher i returned, when its answer carried a
\* list of them.
UpstreamEntries(i) ==
    LET req == fetched[i].request
        json == IF req.kind = "response" /\ req.body.text = "json"
                THEN req.body.value ELSE JsonNull
        list == CASE i = 1 -> json
                  [] i = 2 -> IF "urls" \in DOMAIN json THEN json.urls ELSE JsonNull
                  [] i = 3 -> IF "data" \in DOMAIN json THEN json.data ELSE JsonNull
    IN  IF list.kind = "array" THEN list.items ELSE <<>>

\* The smaller of two numbers.
Smaller(a, b) == IF a < b THEN a ELSE b

\* C17: a SourceResult has min(upstream count, 10) items, at most 10
\* whatever the feed returned; the output holds at most 30 items and
\* totalThreats is at most 30.
C17_AtMostTenItems ==
    /\ \A i \in 1..3 :
         fetched[i] # Pending =>
            /\ Len(fetched[i].value.items) <= 10
            /\ Len(fetched[i].value.items) = Smaller(Len(UpstreamEntries(i)), 10)
    /\ Joined =>
         /\ Len(output.threats[1].items) + Len(output.threats[2].items)
              + Len(output.threats[3].items) <= 30
         /\ output.summary.totalThreats <= 30

\* C17 witness: each feed returned more than 10 entries and the cache was
\* written with 30 items.
C17_Witness ==
    /\ apc = "done"
    /\ \A i \in 1..3 : Len(UpstreamEntries(i)) > 10
    /\ output.summary.totalThreats = 30

\* The severity the claim gives to the item made of upstream entry e of
\* feed i.
DocumentedSeverity(i, e) ==
    CASE i = 1 -> "high"
      [] i = 2 -> "medium"
      [] i = 3 -> IF "confidence_level" \in DOMAIN e /\ e.confidence_level >= 75
                  THEN "high" ELSE "medium"

\* C18: every item of every SourceResult has a severity: high for
\* Ransomware.live, medium for URLhaus, and for ThreatFox high if and only if
\* the entry's confidence_level is at least 75, medium otherwise, also when
\* the entry has no confidence_level.
C18_SeverityDefined ==
    \A i \in 1..3 :
        fetched[i] # Pending =>
            \A k \in 1..Len(fetched[i].value.items) :
                /\ "severity" \in DOMAIN fetched[i].value.items[k]
                /\ fetched[i].value.items[k].severity
                     = DocumentedSeverity(i, UpstreamEntries(i)[k])

\* C18 witness: ThreatFox returned an entry without confidence_level, which
\* became an item of severity medium, next to items of the two other feeds.
C18_Witness ==
    /\ \A i \in 1..3 : fetched[i] # Pending /\ Len(fetched[i].value.items) > 0
    /\ UpstreamEntries(3)[1] = IocBare
    /\ fetched[3].value.items[1].severity = "medium"
    /\ fetched[1].value.items[1].severity = "high"
    /\ fetched[2].value.items[1].severity = "medium"

\* ---------------------------------------------- claims on the cache write
\* C19: the cache write is idempotent: the cache a cycle has written is the
\* serialization of that cycle's output whatever the cache file held before,
\* and writing an output over a cache that holds the same output leaves the
\* content as it was.
C19_WriteIdempotent ==
    apc = "done" =>
        /\ cacheFile = FileWith(TextOf(output))
        /\ cacheBefore = FileWith(TextOf(output)) => cacheFile = cacheBefore

\* C19 witness: the cycle has written its output over a cache that held the
\* same output.
C19_Witness ==
    /\ apc = "done"
    /\ cacheBefore = FileWith(TextOf(output))
    /\ cacheFile = cacheBefore

\* ------------------------------------------------------ claims on crashes
\* C20: a crash at any point of a cycle that loaded a whole snapshot,
\* during the write of the state file too, leaves the state file holding
\* that snapshot or the whole new one, never an empty or half-written file.
C20_CrashKeepsBaseline ==
    (mpc = "crashed" /\ HoldsSnapshot(priorFile)) =>
        \/ stateFile = priorFile
        \/ stateFile = FileWith(JsonStringify(currentState))

\* C21: every run of the aggregator completes: once the fetchers are started
\* each request ends, answered or timed out, so the join finishes.
C21_JoinFinishes == (apc = "fetching") ~> Joined

\* A query of this iteration could not be run.
QueryFailed == queried.connections = "failed" \/ queried.ports = "failed"

\* The iteration stands in its catch block with the error of exec, and has
\* built no state, loaded none, detected nothing, handed no anomaly to
\* sendAlert and not called saveState.
CaughtBeforeLoad ==
    /\ mpc = "errwait"
    /\ caught = "exec"
    /\ currentState = JsonNull
    /\ previousState = JsonNull
    /\ anomalies = <<>>
    /\ handed = <<>>
    /\ saved = "no"

\* C22: when a query of a cycle fails, the cycle goes to its catch block
\* without detection, without an alert and without a save; no step of the
\* cycle, from its start to the end of the wait, touches the state file or
\* begins an alert request, so the next cycle loads the state file as the
\* cycle before the failure left it.
C22_FailedQueryFrame ==
    [][/\ QueryFailed' => CaughtBeforeLoad'
       /\ (mpc \in {"scan", "ports"} \/ QueryFailed) =>
              (stateFile' = stateFile /\ inflight' <= inflight)]_vars

\* A cycle whose port query could not be run stands in its catch block over
\* a state file that holds the snapshot of an earlier cycle.
C22_Witness ==
    /\ queried.ports = "failed"
    /\ mpc = "errwait"
    /\ HoldsSnapshot(stateFile)
    /\ JsonParse(stateFile.text).value.ports # <<>>

\* The connection query found no socket: the iteration goes on with an
\* empty list of connections.
EmptyConnectionsValid ==
    (queried.connections = "empty" /\ queried.ports = "no") =>
        (mpc = "ports" /\ connections = <<>> /\ caught = "none")

\* The port query found no socket: the iteration goes on with a snapshot
\* whose list of ports is empty.
EmptyPortsValid ==
    queried.ports = "empty" =>
        /\ caught # "exec"
        /\ currentState # JsonNull
        /\ currentState.ports = <<>>

\* C23: a query that finds nothing to report, no connection or no listening
\* port, yields an empty list and the cycle goes on to detection and to the
\* save; it is not taken for a failed collection.
C23_EmptyResultValid == EmptyConnectionsValid /\ EmptyPortsValid

\* path lies in the directory dir: it is dir or below it.
Inside(path, dir) ==
    Len(path) >= Len(dir) /\ SubSeq(path, 1, Len(dir)) = dir

\* C24: for every request URL the handler reads a file only when the path
\* it resolved lies in the public directory or in the data directory; a
\* request that resolves to a path outside both, a sibling directory whose
\* name begins with the same characters too, is answered 403 and nothing
\* is read.
C24_NoTraversal ==
    (response.handled /\ ~Inside(response.filePath, PUBLIC_DIR)
                      /\ ~Inside(response.filePath, DATA_DIR)) =>
        (response.status = 403 /\ ~response.read)
====
